---- MODULE Spec2Model ----
(***************************************************************************)
(* Model of the flytesnacks cookbook examples:                             *)
(*   - feast_type_transformers.py : FeatureStoreConfig / FeatureStore and   *)
(*     the FeatureStoreTransformer (python value <-> protobuf Struct)       *)
(*   - map_task.py                : a_mappable_task, coalesce               *)
(*   - raw_container.py           : wf and report_all_calculated_areas      *)
(***************************************************************************)
EXTENDS Integers, Sequences, FiniteSets, TLC

VARIABLES
    \* --- FeatureStoreTransformer crossing ---------------------------------
    cpc,          \* position of one boundary crossing
    python_val,   \* the python value handed to to_literal
    lv,           \* the Literal in flight
    result,       \* what to_literal / to_python_value returned or raised
    \* --- FeatureStore operations ------------------------------------------
    local_file,   \* version of the sqlite file at config.online_store_path
    remote_file,  \* version of s3://<s3_bucket>/<online_store_path>
    last_op,      \* the FeatureStore method that ran last
    calls,        \* the external calls that method made, in order
    failed_at,    \* index in calls of the call that raised, 0 if none
    outcome,      \* "returned", or the exception the method ended with
    \* --- my_map_workflow ---------------------------------------------------
    mapped_out,   \* the List[str] the map node hands to coalesce
    completed,    \* indices of the mapped invocations, in completion order
    coalesced,    \* what coalesce returned
    \* --- raw container wf --------------------------------------------------
    task_out,     \* what each language's container returned
    wf_locals,    \* the local names of wf bound so far
    report_args   \* the keyword arguments report_all_calculated_areas got

codecVars  == <<cpc, python_val, lv, result>>
storeVars  == <<local_file, remote_file, last_op, calls, failed_at, outcome>>
reduceVars == <<mapped_out, completed, coalesced>>
wfVars     == <<task_out, wf_locals, report_args>>
vars == <<cpc, python_val, lv, result,
          local_file, remote_file, last_op, calls, failed_at, outcome,
          mapped_out, completed, coalesced,
          task_out, wf_locals, report_args>>

(***************************************************************************)
(* Python values.  Every value carries its python type so that a           *)
(* conversion that changes the type is visible.                            *)
(***************************************************************************)
NoneV == [t |-> "NoneType"]
PyStr(s) == [t |-> "str", v |-> s]
PyDict(d) == [t |-> "dict", items |-> d]

Returned(v) == [tag |-> "ok", value |-> v]
Raised(e) == [tag |-> "raise", exc |-> e]

\* Bounds of the string values written into a configuration record.
MaxStr == 2
StrTable == <<"", "repo", "online.db", "feast", "bkt", "x">>
Strs == {StrTable[i] : i \in 1..(MaxStr + 1)}

DefaultOnlineStorePath == "online.db"
RequiredFields == {"registry_path", "project", "s3_bucket"}
ConfigFields == RequiredFields \cup {"online_store_path"}

\* @dataclass FeatureStoreConfig: the generated __init__(**kwargs).
\* Unknown keyword or missing required field is a TypeError; field types
\* are not checked; online_store_path defaults to 'online.db'.
FeatureStoreConfigInitNoDefault(kwargs) ==
    IF ~(DOMAIN kwargs \subseteq ConfigFields) \/ ~(ConfigFields \subseteq DOMAIN kwargs)
    THEN Raised("TypeError")
    ELSE Returned([cls |-> "FeatureStoreConfig",
                   registry_path |-> kwargs["registry_path"],
                   project |-> kwargs["project"],
                   s3_bucket |-> kwargs["s3_bucket"],
                   online_store_path |-> kwargs["online_store_path"]])

FeatureStoreConfigInitIgnoresPath(kwargs) ==
    IF ~(DOMAIN kwargs \subseteq ConfigFields) \/ ~(RequiredFields \subseteq DOMAIN kwargs)
    THEN Raised("TypeError")
    ELSE Returned([cls |-> "FeatureStoreConfig",
                   registry_path |-> kwargs["registry_path"],
                   project |-> kwargs["project"],
                   s3_bucket |-> kwargs["s3_bucket"],
                   online_store_path |-> PyStr(DefaultOnlineStorePath)])

FeatureStoreConfigInit(kwargs) ==
    IF ~(DOMAIN kwargs \subseteq ConfigFields) \/ ~(RequiredFields \subseteq DOMAIN kwargs)
    THEN Raised("TypeError")
    ELSE Returned([cls |-> "FeatureStoreConfig",
                   registry_path |-> kwargs["registry_path"],
                   project |-> kwargs["project"],
                   s3_bucket |-> kwargs["s3_bucket"],
                   online_store_path |->
                       IF "online_store_path" \in DOMAIN kwargs
                       THEN kwargs["online_store_path"]
                       ELSE PyStr(DefaultOnlineStorePath)])

\* @dataclass FeatureStore(config)
FeatureStoreInit(config) == [cls |-> "FeatureStore", config |-> config]

\* dataclass_json to_dict(): the dataclass as nested dicts keyed by field name.
ConfigToDict(c) ==
    PyDict([registry_path |-> c.registry_path,
            project |-> c.project,
            s3_bucket |-> c.s3_bucket,
            online_store_path |-> c.online_store_path])

to_dict(fs) == PyDict([config |-> ConfigToDict(fs.config)])

(***************************************************************************)
(* google.protobuf Struct: fields is a map from key to a Value, a Value    *)
(* is one of null_value / string_value / struct_value.                     *)
(***************************************************************************)
RECURSIVE SetStructValue(_)
\* Struct.update / _SetStructValue: python value -> Value
SetStructValue(pv) ==
    CASE pv.t = "NoneType" -> [kind |-> "null_value"]
      [] pv.t = "str" -> [kind |-> "string_value", s |-> pv.v]
      [] pv.t = "dict" ->
            [kind |-> "struct_value",
             fields |-> [k \in DOMAIN pv.items |-> SetStructValue(pv.items[k])]]

StructUpdate(d) == [k \in DOMAIN d.items |-> SetStructValue(d.items[k])]

RECURSIVE ValueToObject(_)
\* json_format MessageToDict on Struct / Value: Value -> python value,
\* keys of a Struct are kept as they are.
ValueToObject(val) ==
    CASE val.kind = "null_value" -> NoneV
      [] val.kind = "string_value" -> PyStr(val.s)
      [] val.kind = "struct_value" ->
            PyDict([k \in DOMAIN val.fields |-> ValueToObject(val.fields[k])])

\* MessageToDict(message): message must be a protobuf message.  Struct's
\* __getitem__ (_GetStructValue) hands back a str or None for a scalar
\* Value, which has no DESCRIPTOR.
MessageToDict(val) ==
    IF val.kind = "struct_value"
    THEN Returned(ValueToObject(val))
    ELSE Raised("AttributeError")

\* flytekit Literal(Scalar(generic=s)); scalar and generic may be None.
Literal(scalar) == [scalar |-> scalar]
Scalar(generic) == [generic |-> generic]

\* python truthiness of lv.scalar.generic: Struct defines __len__.
StructTruthy(g) == g # NoneV /\ DOMAIN g # {}

\* FeatureStoreTransformer.to_literal
to_literal(pv) ==
    IF pv.cls # "FeatureStore"
    THEN Raised("AssertionError")
    ELSE Returned(Literal(Scalar(StructUpdate(to_dict(pv)))))

\* Struct.__getitem__: fields[key] of a protobuf map makes a default Value
\* (no kind set) for a key that is absent.
StructGetItem(g, key) == IF key \in DOMAIN g THEN g[key] ELSE [kind |-> "unset"]

\* The last three statements of to_python_value.
LoadFeatureStore(g) ==
    LET conf_dict == MessageToDict(StructGetItem(g, "config"))
    IN  IF conf_dict.tag = "raise" THEN conf_dict
        ELSE LET feature_store_config == FeatureStoreConfigInit(conf_dict.value.items)
             IN  IF feature_store_config.tag = "raise"
                 THEN feature_store_config
                 ELSE Returned(FeatureStoreInit(feature_store_config.value))

to_python_valueNoConfigCheck(l) ==
    IF ~(l # NoneV /\ l.scalar # NoneV /\ l.scalar.generic # NoneV)
    THEN Raised("ValueError")
    ELSE LoadFeatureStore(l.scalar.generic)

\* FeatureStoreTransformer.to_python_value
to_python_value(l) ==
    IF ~(l # NoneV /\ l.scalar # NoneV /\ StructTruthy(l.scalar.generic)
         /\ "config" \in DOMAIN l.scalar.generic)
    THEN Raised("ValueError")
    ELSE LoadFeatureStore(l.scalar.generic)

(***************************************************************************)
(* Inputs of one crossing.                                                 *)
(***************************************************************************)
ValidConfigs ==
    {[cls |-> "FeatureStoreConfig",
      registry_path |-> PyStr(r), project |-> PyStr(p),
      s3_bucket |-> PyStr(b), online_store_path |-> PyStr(o)] :
        r \in Strs, p \in Strs, b \in Strs, o \in Strs}

ValidFeatureStores == {FeatureStoreInit(c) : c \in ValidConfigs}

\* Values a caller may hand to to_literal.
PythonVals == ValidFeatureStores \cup ValidConfigs \cup {[cls |-> "str", v |-> "repo"]}

\* Key sets of a "config" mapping found on the wire.
WireKeys == ConfigFields \cup {"extra"}
\* One string value per key keeps the wire set small; the required fields vary.
WireConfigs ==
    UNION {[D -> {[kind |-> "string_value", s |-> w] : w \in Strs}] :
              D \in SUBSET WireKeys}

WireStructs ==
    {<<>>} \cup
    {[other |-> [kind |-> "string_value", s |-> "repo"]]} \cup
    {[config |-> [kind |-> "null_value"]],
     [config |-> [kind |-> "string_value", s |-> "repo"]]} \cup
    {[config |-> [kind |-> "struct_value", fields |-> c]] : c \in WireConfigs}

WireLiterals ==
    {NoneV, Literal(NoneV), Literal(Scalar(NoneV))} \cup
    {Literal(Scalar(s)) : s \in WireStructs}

(***************************************************************************)
(* One crossing of the type boundary.                                      *)
(***************************************************************************)
IdleCodec == cpc = "idle" /\ python_val = NoneV /\ lv = NoneV /\ result = NoneV

InitCodecVars ==
    /\ result = NoneV
    /\ \/ cpc = "start" /\ python_val \in PythonVals /\ lv = NoneV
       \/ cpc = "received" /\ python_val = NoneV /\ lv \in WireLiterals

\* The sending side: FeatureStoreTransformer.to_literal(python_val)
ToLiteral ==
    /\ cpc = "start"
    /\ LET r == to_literal(python_val)
       IN  IF r.tag = "raise"
           THEN /\ result' = r
                /\ cpc' = "rejected"
                /\ lv' = lv
           ELSE /\ lv' = r.value
                /\ cpc' = "encoded"
                /\ result' = result
    /\ UNCHANGED python_val

\* The receiving side: FeatureStoreTransformer.to_python_value(lv)
ToPythonValue ==
    /\ cpc \in {"encoded", "received"}
    /\ result' = to_python_value(lv)
    /\ cpc' = IF cpc = "encoded" THEN "roundtrip" ELSE "decoded"
    /\ UNCHANGED <<python_val, lv>>

(***************************************************************************)
(* FeatureStore.apply / get_historical_features / materialize /            *)
(* get_online_features: the external calls each method makes, in source    *)
(* order.                                                                  *)
(***************************************************************************)
MaxVersion == 4

Methods == {"apply", "get_historical_features", "materialize", "get_online_features"}

Steps(m) ==
    CASE m = "apply" -> <<"build", "fs.apply", "upload">>
      [] m = "get_historical_features" ->
            <<"build", "fs.get_historical_features", "to_df">>
      [] m = "materialize" -> <<"download", "build", "fs.materialize", "upload">>
      [] m = "get_online_features" ->
            <<"download", "build", "fs.get_online_features", "to_dict">>

Transfers == {"upload", "download"}

\* A method body has no try/except: the call that raises is the last one made.
CallsMadeSwallowing(steps, f) == steps

CallsMade(steps, f) == IF f = 0 THEN steps ELSE SubSeq(steps, 1, f)

\* What the method ends with when its f-th call raises (f = 0: none does).
MethodOutcome(steps, f) ==
    IF f = 0 THEN "returned"
    ELSE IF steps[f] \in Transfers THEN "TransferError" ELSE "EngineError"

Max(x, y) == IF x >= y THEN x ELSE y

\* The effect of one call that did not raise on the two copies of the
\* online-store file.
CallEffect(c, files) ==
    CASE c = "download" -> [files EXCEPT !.local = files.remote]
      [] c = "upload" -> [files EXCEPT !.remote = files.local]
      [] c \in {"fs.apply", "fs.materialize"} ->
            [files EXCEPT !.local = Max(files.local, files.remote) + 1]
      [] OTHER -> files

RECURSIVE Effects(_, _, _, _)
\* The calls of `made`, from the i-th on, applied in order; the call that
\* raised (index f) leaves the files as they were.
Effects(made, i, f, files) ==
    IF i > Len(made) THEN files
    ELSE Effects(made, i + 1, f,
                 IF i = f THEN files ELSE CallEffect(made[i], files))

IdleStore ==
    /\ local_file = 0 /\ remote_file = 0 /\ last_op = "none"
    /\ calls = <<>> /\ failed_at = 0 /\ outcome = "none"

InitStoreVars == IdleStore

RunMethod(m, f) ==
    LET made == CallsMade(Steps(m), f)
        files == Effects(made, 1, f, [local |-> local_file, remote |-> remote_file])
    IN  /\ files.local <= MaxVersion
        /\ last_op' = m
        /\ calls' = made
        /\ failed_at' = f
        /\ outcome' = MethodOutcome(Steps(m), f)
        /\ local_file' = files.local
        /\ remote_file' = files.remote

Apply == \E f \in 0..Len(Steps("apply")) : RunMethod("apply", f)
GetHistoricalFeatures ==
    \E f \in 0..Len(Steps("get_historical_features")) :
        RunMethod("get_historical_features", f)
Materialize == \E f \in 0..Len(Steps("materialize")) : RunMethod("materialize", f)
GetOnlineFeatures ==
    \E f \in 0..Len(Steps("get_online_features")) :
        RunMethod("get_online_features", f)

(***************************************************************************)
(* map_task.py: a_mappable_task and coalesce.  A python str is the         *)
(* sequence of its characters.                                             *)
(***************************************************************************)
Digits == <<"0", "1", "2", "3", "4", "5", "6", "7", "8", "9">>

RECURSIVE StrNat(_)
StrNat(n) ==
    IF n < 10 THEN <<Digits[n + 1]>>
    ELSE StrNat(n \div 10) \o <<Digits[(n % 10) + 1]>>

\* python str(int)
str(n) == IF n < 0 THEN <<"-">> \o StrNat(-n) ELSE StrNat(n)

\* @task a_mappable_task(a: int) -> str
a_mappable_task(a) ==
    LET inc == a + 2
        stringified == str(inc)
    IN  stringified

RECURSIVE join(_, _)
\* python sep.join(b)
join(sep, b) ==
    IF b = <<>> THEN <<>>
    ELSE IF Len(b) = 1 THEN b[1]
    ELSE b[1] \o sep \o join(sep, Tail(b))

Reverse(s) == [i \in 1..Len(s) |-> s[Len(s) + 1 - i]]

coalesceReversed(b) == join(<<>>, Reverse(b))

\* @task coalesce(b: List[str]) -> str
coalesce(b) ==
    LET coalesced_ == join(<<>>, b)
    IN  coalesced_

\* Bounds of the collections handed to coalesce.
MaxLen == 3
MaxInputs == 4
InputTable == <<-3, 0, 8, 121, -14, 97>>
Inputs == {InputTable[i] : i \in 1..MaxInputs}

\* The strings a List[str] may hold: outputs of a_mappable_task, and the
\* letters of a hand-written list.
Elems == {a_mappable_task(x) : x \in Inputs} \cup {<<"a">>, <<"b">>, <<"c">>}

SeqsUpTo(S, n) == UNION {[1..k -> S] : k \in 0..n}

IdleReduce == mapped_out = <<>> /\ completed = <<>> /\ coalesced = NoneV

InitReduceVars ==
    /\ mapped_out \in SeqsUpTo(Elems, MaxLen)
    /\ completed = <<>>
    /\ coalesced = NoneV

Range(s) == {s[i] : i \in 1..Len(s)}

\* One mapped invocation of map_task(a_mappable_task)(a=a) finishes; the
\* invocations finish in any order.
InvocationCompletes ==
    /\ coalesced = NoneV
    /\ \E i \in (1..Len(mapped_out)) \ Range(completed) :
           completed' = Append(completed, i)
    /\ UNCHANGED <<mapped_out, coalesced>>

\* coalesced = coalesce(b=mapped_out), once the map node has its output
Coalesce ==
    /\ coalesced = NoneV
    /\ Range(completed) = 1..Len(mapped_out)
    /\ coalesced' = Returned(coalesce(mapped_out))
    /\ UNCHANGED <<mapped_out, completed>>

(***************************************************************************)
(* raw_container.py: wf and report_all_calculated_areas.                   *)
(***************************************************************************)
PyFloat(n) == [t |-> "float", x |-> n]

Languages == {"shell", "python", "r", "haskell", "julia"}

\* Bound of the areas a container may write to its output directory.
MaxArea == 1
Areas == 0..MaxArea
Metadatas == {"[from shell]", "[from other]"}

\* area_L, metadata_L = calculate_ellipse_area_L(a=a, b=b)
AreaName(L) ==
    CASE L = "shell" -> "area_shell" [] L = "python" -> "area_python"
      [] L = "r" -> "area_r" [] L = "haskell" -> "area_haskell"
      [] L = "julia" -> "area_julia"

MetadataName(L) ==
    CASE L = "shell" -> "metadata_shell" [] L = "python" -> "metadata_python"
      [] L = "r" -> "metadata_r" [] L = "haskell" -> "metadata_haskell"
      [] L = "julia" -> "metadata_julia"

LocalNames == {AreaName(L) : L \in Languages} \cup {MetadataName(L) : L \in Languages}

InitWfVars ==
    /\ task_out = [L \in Languages |-> NoneV]
    /\ wf_locals = [n \in LocalNames |-> NoneV]
    /\ report_args = NoneV

\* wf is not running.
IdleWf == InitWfVars

\* One ContainerTask runs: outputs=kwtypes(area=float, metadata=str), read
\* from the container's output directory.
RunContainer(L) ==
    /\ task_out[L] = NoneV
    /\ \E ar \in Areas, md \in Metadatas :
         /\ task_out' = [task_out EXCEPT ![L] = [area |-> PyFloat(ar), metadata |-> PyStr(md)]]
         /\ wf_locals' = [wf_locals EXCEPT ![AreaName(L)] = PyFloat(ar),
                                           ![MetadataName(L)] = PyStr(md)]
    /\ UNCHANGED report_args

\* The keyword arguments of the call in wf.
ReportBindingsSwapped(locals) ==
    [area_shell |-> locals["area_shell"], metadata_shell |-> locals["metadata_shell"],
     area_python |-> locals["area_r"], metadata_python |-> locals["metadata_python"],
     area_r |-> locals["area_python"], metadata_r |-> locals["metadata_r"],
     area_haskell |-> locals["area_haskell"], metadata_haskell |-> locals["metadata_haskell"],
     area_julia |-> locals["area_julia"], metadata_julia |-> locals["metadata_julia"]]

ReportBindings(locals) ==
    [area_shell |-> locals["area_shell"], metadata_shell |-> locals["metadata_shell"],
     area_python |-> locals["area_python"], metadata_python |-> locals["metadata_python"],
     area_r |-> locals["area_r"], metadata_r |-> locals["metadata_r"],
     area_haskell |-> locals["area_haskell"], metadata_haskell |-> locals["metadata_haskell"],
     area_julia |-> locals["area_julia"], metadata_julia |-> locals["metadata_julia"]]

\* The names the call reads; the call waits for every one of them.
ReportReads == LocalNames

\* report_all_calculated_areas(area_shell=area_shell, ...)
ReportAllCalculatedAreas ==
    /\ report_args = NoneV
    /\ \A n \in ReportReads : wf_locals[n] # NoneV
    /\ report_args' = ReportBindings(wf_locals)
    /\ UNCHANGED <<task_out, wf_locals>>

(***************************************************************************)
(* Specifications: one per example.                                        *)
(***************************************************************************)
InitCodec == InitCodecVars /\ IdleStore /\ IdleReduce /\ IdleWf
NextCodec ==
    \/ ToLiteral /\ UNCHANGED <<storeVars, reduceVars, wfVars>>
    \/ ToPythonValue /\ UNCHANGED <<storeVars, reduceVars, wfVars>>
SpecCodec == InitCodec /\ [][NextCodec]_vars

InitStore == InitStoreVars /\ IdleCodec /\ IdleReduce /\ IdleWf
NextStore ==
    \/ Apply /\ UNCHANGED <<codecVars, reduceVars, wfVars>>
    \/ GetHistoricalFeatures /\ UNCHANGED <<codecVars, reduceVars, wfVars>>
    \/ Materialize /\ UNCHANGED <<codecVars, reduceVars, wfVars>>
    \/ GetOnlineFeatures /\ UNCHANGED <<codecVars, reduceVars, wfVars>>
SpecStore == InitStore /\ [][NextStore]_vars

InitReduce == InitReduceVars /\ IdleCodec /\ IdleStore /\ IdleWf
NextReduce ==
    \/ InvocationCompletes /\ UNCHANGED <<codecVars, storeVars, wfVars>>
    \/ Coalesce /\ UNCHANGED <<codecVars, storeVars, wfVars>>
SpecReduce == InitReduce /\ [][NextReduce]_vars

InitWf == InitWfVars /\ IdleCodec /\ IdleStore /\ IdleReduce
NextWf ==
    \/ (\E L \in Languages : RunContainer(L)) /\ UNCHANGED <<codecVars, storeVars, reduceVars>>
    \/ ReportAllCalculatedAreas /\ UNCHANGED <<codecVars, storeVars, reduceVars>>
SpecWf == InitWf /\ [][NextWf]_vars

(***************************************************************************)
(* Properties.                                                             *)
(***************************************************************************)

\* C1: decoding the literal that to_literal made of a valid FeatureStore
\* gives back a FeatureStore equal to it, field for field; the literal
\* nests the four fields, under their own names, below "config".
C1_RoundTrip ==
    cpc = "roundtrip" =>
        /\ result = Returned(python_val)
        /\ DOMAIN lv.scalar.generic = {"config"}
        /\ DOMAIN lv.scalar.generic["config"].fields =
               {"registry_path", "project", "s3_bucket", "online_store_path"}

C1_Witness ==
    /\ cpc = "roundtrip"
    /\ python_val.config.registry_path = PyStr("repo")
    /\ python_val.config.project = PyStr("")
    /\ python_val.config.online_store_path = PyStr("repo")
    /\ result.tag = "ok"
    /\ result.value.config.online_store_path = PyStr("repo")

\* The literal carries a Struct.
HasRecord(l) == l # NoneV /\ l.scalar # NoneV /\ l.scalar.generic # NoneV

\* C4: decoding a record that is empty or has no "config" field raises the
\* transformer's malformed-record error (ValueError) and returns nothing.
C4_ConfigLessRaises ==
    (cpc = "decoded" /\ HasRecord(lv) /\ "config" \notin DOMAIN lv.scalar.generic) =>
        result = [tag |-> "raise", exc |-> "ValueError"]

C4_Witness ==
    /\ cpc = "decoded"
    /\ HasRecord(lv)
    /\ DOMAIN lv.scalar.generic = {"other"}
    /\ result.tag = "raise"

\* The "config" mapping of the record has exactly the three required fields.
OldEncoderRecord(l) ==
    /\ HasRecord(l)
    /\ "config" \in DOMAIN l.scalar.generic
    /\ l.scalar.generic["config"].kind = "struct_value"
    /\ DOMAIN l.scalar.generic["config"].fields = {"registry_path", "project", "s3_bucket"}

\* C5: a record whose "config" has registry_path, project and s3_bucket but
\* no online_store_path decodes to a configuration with online_store_path
\* "online.db" and the three fields as given.
C5_DefaultOnlineStorePath ==
    (cpc = "decoded" /\ OldEncoderRecord(lv)) =>
        LET given == lv.scalar.generic["config"].fields
        IN  /\ result.tag = "ok"
            /\ result.value.cls = "FeatureStore"
            /\ result.value.config.online_store_path = [t |-> "str", v |-> "online.db"]
            /\ result.value.config.registry_path = [t |-> "str", v |-> given["registry_path"].s]
            /\ result.value.config.project = [t |-> "str", v |-> given["project"].s]
            /\ result.value.config.s3_bucket = [t |-> "str", v |-> given["s3_bucket"].s]

C5_Witness ==
    /\ cpc = "decoded"
    /\ OldEncoderRecord(lv)
    /\ lv.scalar.generic["config"].fields["registry_path"].s = "repo"
    /\ result.tag = "ok"
    /\ result.value.config.registry_path = PyStr("repo")
    /\ result.value.config.online_store_path = PyStr("online.db")

RECURSIVE TotalLen(_, _)
\* Number of characters in the first n strings of b.
TotalLen(b, n) == IF n = 0 THEN 0 ELSE TotalLen(b, n - 1) + Len(b[n])

\* C6: coalesce returns the strings of its list concatenated in index
\* order: the characters of b[i] stand, in order, right after those of
\* b[1..i-1], whatever order the mapped invocations finished in.
C6_ConcatInIndexOrder ==
    coalesced # NoneV =>
        /\ coalesced.tag = "ok"
        /\ Len(coalesced.value) = TotalLen(mapped_out, Len(mapped_out))
        /\ \A i \in 1..Len(mapped_out) : \A k \in 1..Len(mapped_out[i]) :
               coalesced.value[TotalLen(mapped_out, i - 1) + k] = mapped_out[i][k]

C6_Witness ==
    /\ mapped_out = << <<"a">>, <<"b">>, <<"c">> >>
    /\ completed = <<3, 1, 2>>
    /\ coalesced = Returned(<<"a", "b", "c">>)

\* C9: report_all_calculated_areas is called only once all five containers
\* have returned, and each area_L / metadata_L it gets is what L's own
\* container returned.
C9_ReportGetsEveryLanguage ==
    report_args # NoneV =>
        /\ \A L \in {"shell", "python", "r", "haskell", "julia"} : task_out[L] # NoneV
        /\ report_args.area_shell = task_out["shell"].area
        /\ report_args.metadata_shell = task_out["shell"].metadata
        /\ report_args.area_python = task_out["python"].area
        /\ report_args.metadata_python = task_out["python"].metadata
        /\ report_args.area_r = task_out["r"].area
        /\ report_args.metadata_r = task_out["r"].metadata
        /\ report_args.area_haskell = task_out["haskell"].area
        /\ report_args.metadata_haskell = task_out["haskell"].metadata
        /\ report_args.area_julia = task_out["julia"].area
        /\ report_args.metadata_julia = task_out["julia"].metadata

C9_Witness ==
    /\ report_args # NoneV
    /\ task_out["python"].area = PyFloat(0)
    /\ task_out["r"].area = PyFloat(1)
    /\ task_out["shell"].metadata = PyStr("[from shell]")
    /\ task_out["julia"].metadata = PyStr("[from other]")
    /\ report_args.area_r = PyFloat(1)

\* C10: in materialize and get_online_features the engine is called only
\* after a download that did not raise; in apply and materialize an upload
\* that raises makes the method end with that error.
C10_TransferFailureAborts ==
    /\ last_op \in {"materialize", "get_online_features"} =>
           \A i \in 1..Len(calls) :
               calls[i] \in {"fs.materialize", "fs.get_online_features"} =>
                   \E j \in 1..(i - 1) : calls[j] = "download" /\ failed_at # j
    /\ (last_op \in {"apply", "materialize"} /\ failed_at # 0
            /\ Steps(last_op)[failed_at] = "upload") =>
           outcome = "TransferError"

C10_Witness ==
    /\ last_op = "materialize"
    /\ local_file # remote_file
    /\ failed_at = 1
    /\ calls = <<"download">>
    /\ outcome = "TransferError"

====
